---- MODULE Spec2Model ----
(***************************************************************************)
(* A model of survey/views.py: the request handlers of the survey          *)
(* application, acting on the relational rows they read and write.         *)
(* Every table is a sequence whose index is the row's primary key.         *)
(***************************************************************************)
EXTENDS Integers, Sequences, FiniteSets, TLC

VARIABLES db, last, confirmed, txn, seen

vars == <<db, last, confirmed, txn, seen>>

(* ------------------------------ bounds -------------------------------- *)
MaxUsers == 2
MaxSurveys == 1
MaxQuestions == 2
MaxChoices == 2
MaxList == 1
MaxAssignments == 2
MaxResponses == 2

(* ------------------------------ inputs -------------------------------- *)
Anonymous == 0
\* primary keys a request may name: the last one never matches a row
UserKeys == 1..(MaxUsers + 1)
\* the texts a choice may carry, numbered
ChoiceTexts == 1..MaxChoices
Titles == {"", "t"}

SeqsUpTo(S, n) == UNION {[1..k -> S] : k \in 0..n}

\* the choice texts of one question: at least one, no text twice
ChoiceLists ==
    {cs \in SeqsUpTo(ChoiceTexts, MaxChoices) :
        cs # <<>> /\ \A i, j \in 1..Len(cs) : cs[i] = cs[j] => i = j}
\* one element of request.POST.getlist('questions'): a JSON text that
\* json.loads accepts (ok) with its 'text' and 'choices', or one it rejects
Malformed == [ok |-> FALSE, text |-> "", choices |-> <<>>]
QuestionObjects ==
    {[ok |-> TRUE, text |-> "q", choices |-> cs] : cs \in ChoiceLists} \cup {Malformed}
QuestionLists == SeqsUpTo(QuestionObjects, MaxQuestions)
KeyLists == SeqsUpTo(UserKeys, MaxList)

(* ------------------------------ database ------------------------------ *)
EmptyDb ==
    [users |-> <<>>, surveys |-> <<>>, questions |-> <<>>, choices |-> <<>>,
     assignments |-> <<>>, responses |-> <<>>,
     objPerms |-> {}, groups |-> {}, groupPerms |-> {}, members |-> {}]

UserExists(d, u) == u \in 1..Len(d.users)
\* a session exists only for a user the login form accepted (an active one)
Authenticated(d, u) == UserExists(d, u) /\ d.users[u].is_active

NoToken == [user |-> 0, expired |-> FALSE]
\* the last request and its outcome, kept for the properties below
NoRequest ==
    [op |-> "none", user |-> Anonymous, target |-> 0, outcome |-> "none",
     errors |-> {}, blank |-> {}, before |-> 0, questions |-> <<>>,
     tally |-> <<>>, missing |-> FALSE, unknown |-> FALSE, created |-> 0,
     token |-> NoToken]
Req(op, user, target, outcome) ==
    [NoRequest EXCEPT !.op = op, !.user = user, !.target = target, !.outcome = outcome]

(* --------------------------- registration ----------------------------- *)
\* the confirmation token: bound to one user, and it expires
Tokens == [user : UserKeys, expired : BOOLEAN]
make_token(u) == [user |-> u, expired |-> FALSE]
check_token(u, t) == t.user = u /\ ~t.expired

\* urlsafe_base64_encode(force_bytes(user.id)) and its inverse
EncodedIds == [b64 : UserKeys]
Encode(id) == [b64 |-> id]
Decode(x) == x.b64

\* form.save(commit=False): the User instance the registration form builds;
\* the view leaves its is_active as the form made it
FormInstances == [is_active : BOOLEAN]
\* user.save() writes the model's fields; other attributes of the instance
\* are not columns and are dropped
ModelFields(instance) == [is_active |-> instance.is_active]

RegisterPost(d, valid, instance) ==
    IF valid
    THEN LET user == [is_active |-> instance.is_active, is_valid |-> FALSE]
             d1 == [d EXCEPT !.users = Append(@, ModelFields(user))]
             id == Len(d1.users)
         IN [db |-> d1, outcome |-> "login_page",
             mail |-> [uid |-> Encode(id), token |-> make_token(id)]]
    ELSE [db |-> d, outcome |-> "register_form",
          mail |-> [uid |-> Encode(0), token |-> NoToken]]

ConfirmGet(d, uid, token) ==
    LET user_id == Decode(uid) IN
    IF ~UserExists(d, user_id)
    THEN [db |-> d, outcome |-> "error", verified |-> FALSE]
    ELSE IF check_token(user_id, token)
    THEN LET user == [is_active |-> d.users[user_id].is_active, is_valid |-> TRUE]
         IN [db |-> [d EXCEPT !.users[user_id] = ModelFields(user)],
             outcome |-> "login_complete", verified |-> TRUE]
    ELSE [db |-> d, outcome |-> "login_confirm_error", verified |-> FALSE]

(* --------------------------- survey creation -------------------------- *)
\* a variant that forgets the check of the assignees
MissingFieldsNoAssignees(title, qs, as) ==
    (IF title = "" THEN {"title"} ELSE {})
    \cup (IF qs = <<>> THEN {"questions"} ELSE {})

MissingFields(title, qs, as) ==
    (IF title = "" THEN {"title"} ELSE {})
    \cup (IF qs = <<>> THEN {"questions"} ELSE {})
    \cup (IF as = <<>> THEN {"assignees"} ELSE {})
\* a variant that creates the choices last to first
RECURSIVE CreateChoicesReversed(_, _, _)
CreateChoicesReversed(d, q, cs) ==
    IF cs = <<>> THEN d
    ELSE CreateChoicesReversed(
            [d EXCEPT !.choices = Append(@, [text |-> cs[Len(cs)], question |-> q])],
            q, SubSeq(cs, 1, Len(cs) - 1))

RECURSIVE CreateChoices(_, _, _)
CreateChoices(d, q, cs) ==
    IF cs = <<>> THEN d
    ELSE CreateChoices([d EXCEPT !.choices = Append(@, [text |-> Head(cs), question |-> q])],
                       q, Tail(cs))

\* the loop over questions_json; it stops at the first text json.loads rejects
RECURSIVE CreateQuestions(_, _, _)
CreateQuestions(d, s, qs) ==
    IF qs = <<>> THEN [db |-> d, ok |-> TRUE]
    ELSE IF ~Head(qs).ok THEN [db |-> d, ok |-> FALSE]
    ELSE LET d1 == [d EXCEPT !.questions = Append(@, [text |-> Head(qs).text, survey |-> s])]
         IN CreateQuestions(CreateChoices(d1, Len(d1.questions), Head(qs).choices), s, Tail(qs))

\* the loop over assignees; User.objects.get raises on an unknown key
RECURSIVE AssignAll(_, _, _, _)
AssignAll(d, by, s, ids) ==
    IF ids = <<>> THEN [db |-> d, ok |-> TRUE]
    ELSE IF ~UserExists(d, Head(ids)) THEN [db |-> d, ok |-> FALSE]
    ELSE LET d1 == [d EXCEPT !.assignments =
                        Append(@, [survey |-> s, assigned_by |-> by, assigned_to |-> Head(ids)])]
             d2 == [d1 EXCEPT !.objPerms = @ \cup {<<Head(ids), Len(d1.assignments)>>}]
         IN AssignAll(d2, by, s, Tail(ids))

\* the loop over reviewers: reviewer.groups.add(group)
RECURSIVE AddReviewers(_, _, _)
AddReviewers(d, g, ids) ==
    IF ids = <<>> THEN [db |-> d, ok |-> TRUE]
    ELSE IF ~UserExists(d, Head(ids)) THEN [db |-> d, ok |-> FALSE]
    ELSE AddReviewers([d EXCEPT !.members = @ \cup {<<Head(ids), g>>}], g, Tail(ids))

SurveyCreatePost(d, u, title, qs, as, rs) ==
    IF ~Authenticated(d, u)
    THEN [db |-> d, outcome |-> "redirect_login", errors |-> {}]
    ELSE IF MissingFields(title, qs, as) # {}
    THEN [db |-> d, outcome |-> "create_form", errors |-> MissingFields(title, qs, as)]
    ELSE
    LET d1 == [d EXCEPT !.surveys = Append(@, [title |-> title, created_by |-> u])]
        s == Len(d1.surveys)
        r2 == CreateQuestions(d1, s, qs)
        r3 == AssignAll(r2.db, u, s, as)
        d4 == [r3.db EXCEPT !.groups = @ \cup {s}, !.groupPerms = @ \cup {s},
                            !.members = @ \cup {<<u, s>>}]
        r5 == AddReviewers(d4, s, rs)
    IN  IF ~r2.ok THEN [db |-> r2.db, outcome |-> "error", errors |-> {}]
        ELSE IF ~r3.ok THEN [db |-> r3.db, outcome |-> "error", errors |-> {}]
        ELSE IF ~r5.ok THEN [db |-> r5.db, outcome |-> "error", errors |-> {}]
        ELSE [db |-> r5.db, outcome |-> "redirect_profile", errors |-> {}]

(* ------------------------- permission checks -------------------------- *)
\* guardian: user.has_perm('view_surveyassignment', assignment)
HasAssignmentPerm(d, u, a) == Authenticated(d, u) /\ <<u, a>> \in d.objPerms
\* guardian: user.has_perm('can_view_results', survey), held through the group
HasResultsPerm(d, u, s) ==
    Authenticated(d, u) /\ \E g \in d.groupPerms : g = s /\ <<u, g>> \in d.members

\* guardian's PermissionRequiredMixin: get_object (404), then the permission;
\* without it the request is redirected to the login page
PermissionRequired(found, has_perm) ==
    IF ~found THEN "not_found"
    ELSE IF ~has_perm THEN "redirect_login"
    ELSE "ok"

\* a variant that lets every user pass
test_func_anyone(d, u, s) == s \in 1..Len(d.surveys)

test_func(d, u, s) == d.surveys[s].created_by = u

\* UserPassesTestMixin: test_func, then handle_no_permission
SurveyManagerDispatch(d, u, s) ==
    IF s \notin 1..Len(d.surveys) THEN "error"
    ELSE IF test_func(d, u, s) THEN "ok"
    ELSE IF Authenticated(d, u) THEN "forbidden"
    ELSE "redirect_login"

(* ------------------------- assignment management ---------------------- *)
SurveyManagerPost(d, u, s, as, rs) ==
    LET gate == SurveyManagerDispatch(d, u, s)
        r1 == AssignAll(d, u, s, as)
        r2 == AddReviewers(r1.db, s, rs)
    IN  IF gate # "ok" THEN [db |-> d, outcome |-> gate]
        ELSE IF ~r1.ok THEN [db |-> r1.db, outcome |-> "error"]
        ELSE IF s \notin r1.db.groups THEN [db |-> r1.db, outcome |-> "error"]
        ELSE IF ~r2.ok THEN [db |-> r2.db, outcome |-> "error"]
        ELSE [db |-> r2.db, outcome |-> "redirect_profile"]

(* -------------------------- response submission ----------------------- *)
Ids(n) == [i \in 1..n |-> i]
\* survey.questions.all() and question.choices.all(), in primary-key order
SurveyQuestions(d, s) == SelectSeq(Ids(Len(d.questions)), LAMBDA q : d.questions[q].survey = s)
QuestionChoices(d, q) == SelectSeq(Ids(Len(d.choices)), LAMBDA c : d.choices[c].question = q)

\* request.POST of a submission: per question id, 0 when the field
\* question_<id> is absent, else the submitted choice id
Missing == 0
Posts(d) == [1..Len(d.questions) -> 0..(Len(d.choices) + 1)]

\* whether the request runs inside a database transaction
ATOMIC_REQUESTS == TRUE
\* whether SurveyResponse declares (survey_assigned, question) unique
UNIQUE_RESPONSES == FALSE
\* transaction.savepoint(): outside a transaction it does nothing
savepoint(d) ==
    IF ATOMIC_REQUESTS THEN [set |-> TRUE, rows |-> d.responses]
    ELSE [set |-> FALSE, rows |-> <<>>]
\* a variant whose rollback does nothing
savepoint_rollback_noop(d, sid) == d
savepoint_rollback(d, sid) == IF sid.set THEN [d EXCEPT !.responses = sid.rows] ELSE d
savepoint_commit(d, sid) == d

\* one iteration of the loop over the survey's questions
AnswerStep(d, a, q, post) ==
    IF post[q] = Missing THEN [db |-> d, status |-> "validation"]
    ELSE IF post[q] \notin 1..Len(d.choices) THEN [db |-> d, status |-> "exception"]
    ELSE IF UNIQUE_RESPONSES /\ \E n \in 1..Len(d.responses) :
                d.responses[n].survey_assigned = a /\ d.responses[n].question = q
    THEN [db |-> d, status |-> "exception"]
    ELSE [db |-> [d EXCEPT !.responses =
                     Append(@, [survey_assigned |-> a, question |-> q, choice |-> post[q]])],
          status |-> "loop"]

RECURSIVE AnswerLoop(_, _, _, _)
AnswerLoop(d, a, qs, post) ==
    IF qs = <<>> THEN [db |-> d, status |-> "loop"]
    ELSE LET r == AnswerStep(d, a, Head(qs), post)
         IN IF r.status # "loop" THEN r ELSE AnswerLoop(r.db, a, Tail(qs), post)

\* a variant that keeps the rows of a submission that failed validation
FinishPostKeepsRows(d, sid, status) ==
    IF status = "validation"
    THEN [db |-> savepoint_commit(d, sid), outcome |-> "assignment_form"]
    ELSE IF status = "exception"
    THEN [db |-> savepoint_rollback(d, sid), outcome |-> "redirect_profile"]
    ELSE [db |-> savepoint_commit(d, sid), outcome |-> "redirect_profile"]

\* what follows the loop: the validation branch, the commit, the bare except
FinishPost(d, sid, status) ==
    IF status = "validation"
    THEN [db |-> savepoint_rollback(d, sid), outcome |-> "assignment_form"]
    ELSE IF status = "exception"
    THEN [db |-> savepoint_rollback(d, sid), outcome |-> "redirect_profile"]
    ELSE [db |-> savepoint_commit(d, sid), outcome |-> "redirect_profile"]

SurveyAssignmentDispatch(d, u, a) ==
    PermissionRequired(a \in 1..Len(d.assignments), HasAssignmentPerm(d, u, a))

SurveyAssignmentPost(d, u, a, post) ==
    LET gate == SurveyAssignmentDispatch(d, u, a) IN
    IF gate # "ok" THEN [db |-> d, outcome |-> gate, created |-> 0]
    ELSE LET sid == savepoint(d)
             r == AnswerLoop(d, a, SurveyQuestions(d, d.assignments[a].survey), post)
             f == FinishPost(r.db, sid, r.status)
         IN [db |-> f.db, outcome |-> f.outcome,
             created |-> Len(r.db.responses) - Len(d.responses)]

(* ------------------------------ results tally ------------------------- *)
ChoiceResultViewModel(d, c) == [id |-> c, text |-> d.choices[c].text, responses |-> 0]

\* QuestionViewModel.add_survey_response: the first choice with the id
add_survey_response(vm, resp) ==
    LET hits == {i \in 1..Len(vm.choices) : vm.choices[i].id = resp.choice} IN
    IF hits = {} THEN vm
    ELSE LET i == CHOOSE j \in hits : \A k \in hits : j <= k
         IN [vm EXCEPT !.choices[i].responses = @ + 1]

RECURSIVE AddResponses(_, _, _, _)
AddResponses(d, vm, q, n) ==
    IF n > Len(d.responses) THEN vm
    ELSE AddResponses(d,
            IF d.responses[n].question = q THEN add_survey_response(vm, d.responses[n]) ELSE vm,
            q, n + 1)

\* a variant that lists only the choices some response names
QuestionViewModelAnswered(d, q) ==
    LET cs == SelectSeq(QuestionChoices(d, q),
                        LAMBDA c : \E n \in 1..Len(d.responses) :
                            d.responses[n].question = q /\ d.responses[n].choice = c)
        vm == [text |-> d.questions[q].text,
               choices |-> [i \in 1..Len(cs) |-> ChoiceResultViewModel(d, cs[i])]]
    IN AddResponses(d, vm, q, 1)

QuestionViewModel(d, q) ==
    LET cs == QuestionChoices(d, q)
        vm == [text |-> d.questions[q].text,
               choices |-> [i \in 1..Len(cs) |-> ChoiceResultViewModel(d, cs[i])]]
    IN AddResponses(d, vm, q, 1)

Tally(d, s) ==
    LET qs == SurveyQuestions(d, s) IN [i \in 1..Len(qs) |-> QuestionViewModel(d, qs[i])]

SurveyResultsDispatch(d, u, s) ==
    PermissionRequired(s \in 1..Len(d.surveys), HasResultsPerm(d, u, s))

SurveyResultsGet(d, u, s) ==
    LET gate == SurveyResultsDispatch(d, u, s) IN
    IF gate # "ok" THEN [outcome |-> gate, tally |-> <<>>]
    ELSE [outcome |-> "results_page", tally |-> Tally(d, s)]

(* ------------------------------ actions ------------------------------- *)
\* who may send a request: nobody logged in, or a logged-in user
Actors(d) == {Anonymous} \cup {u \in 1..Len(d.users) : Authenticated(d, u)}
SurveyKeys == 1..(MaxSurveys + 1)
AssignmentKeys == 1..(MaxAssignments + 1)

IdleTxn ==
    [phase |-> "idle", user |-> Anonymous, a |-> 0, post |-> <<>>, todo |-> <<>>,
     sid |-> [set |-> FALSE, rows |-> <<>>], rows |-> <<>>, before |-> 0, total |-> 0]
NothingSeen == [rows |-> 0, total |-> 0, pending |-> 0]

Init ==
    /\ db = EmptyDb
    /\ last = NoRequest
    /\ confirmed = {}
    /\ txn = IdleTxn
    /\ seen = NothingSeen

RegisterGet ==
    /\ last' = Req("register_get", Anonymous, 0, "register_form")
    /\ UNCHANGED <<db, confirmed, txn, seen>>

Register ==
    \E valid \in BOOLEAN, instance \in FormInstances :
        /\ valid => Len(db.users) < MaxUsers
        /\ LET r == RegisterPost(db, valid, instance) IN
            /\ db' = r.db
            /\ last' = [Req("register", Anonymous, Decode(r.mail.uid), r.outcome) EXCEPT
                            !.token = r.mail.token]
        /\ UNCHANGED <<confirmed, txn, seen>>

Confirm ==
    \E uid \in EncodedIds, token \in Tokens :
        LET r == ConfirmGet(db, uid, token) IN
        /\ db' = r.db
        /\ confirmed' = IF r.verified THEN confirmed \cup {Decode(uid)} ELSE confirmed
        /\ last' = [Req("confirm", Anonymous, Decode(uid), r.outcome) EXCEPT !.token = token]
        /\ UNCHANGED <<txn, seen>>

ProfileGet ==
    \E u \in Actors(db) :
        /\ last' = Req("profile", u, 0,
                       IF Authenticated(db, u) THEN "profile_page" ELSE "redirect_login")
        /\ UNCHANGED <<db, confirmed, txn, seen>>

SurveyCreateGet ==
    \E u \in Actors(db) :
        /\ last' = Req("create_get", u, 0,
                       IF Authenticated(db, u) THEN "create_form" ELSE "redirect_login")
        /\ UNCHANGED <<db, confirmed, txn, seen>>

SurveyCreate ==
    \E u \in Actors(db), title \in Titles, qs \in QuestionLists,
       as \in KeyLists, rs \in KeyLists :
        /\ Len(db.surveys) < MaxSurveys
        /\ Len(db.assignments) + Len(as) <= MaxAssignments
        /\ LET r == SurveyCreatePost(db, u, title, qs, as, rs) IN
            /\ db' = r.db
            /\ last' = [Req("create", u, Len(r.db.surveys), r.outcome) EXCEPT
                            !.errors = r.errors,
                            !.blank = {f \in {"title", "questions", "assignees"} :
                                          \/ f = "title" /\ title = ""
                                          \/ f = "questions" /\ Len(qs) = 0
                                          \/ f = "assignees" /\ Len(as) = 0},
                            !.questions = IF r.outcome = "redirect_profile" THEN qs ELSE <<>>]
        /\ UNCHANGED <<confirmed, txn, seen>>

SurveyManagerGet ==
    \E u \in Actors(db), s \in SurveyKeys :
        /\ last' = LET gate == SurveyManagerDispatch(db, u, s)
                   IN Req("manage_get", u, s, IF gate = "ok" THEN "manage_page" ELSE gate)
        /\ UNCHANGED <<db, confirmed, txn, seen>>

SurveyManage ==
    \E u \in Actors(db), s \in SurveyKeys, as \in KeyLists, rs \in KeyLists :
        /\ Len(db.assignments) + Len(as) <= MaxAssignments
        /\ LET r == SurveyManagerPost(db, u, s, as, rs) IN
            /\ db' = r.db
            /\ last' = Req("manage_post", u, s, r.outcome)
        /\ UNCHANGED <<confirmed, txn, seen>>

SurveyAssignmentGet ==
    \E u \in Actors(db), a \in AssignmentKeys :
        /\ last' = LET gate == SurveyAssignmentDispatch(db, u, a)
                   IN Req("assignment_get", u, a, IF gate = "ok" THEN "assignment_form" ELSE gate)
        /\ UNCHANGED <<db, confirmed, txn, seen>>

\* what the properties need to know of a submission's form data
AnyMissing(d, a, post) ==
    \E q \in 1..Len(d.questions) :
        d.questions[q].survey = d.assignments[a].survey /\ post[q] = Missing
AnyUnknown(d, a, post) ==
    \E q \in 1..Len(d.questions) :
        /\ d.questions[q].survey = d.assignments[a].survey
        /\ post[q] # Missing /\ post[q] > Len(d.choices)

SubmitLast(d, u, a, post, outcome, created) ==
    [Req("submit", u, a, outcome) EXCEPT
        !.before = Len(d.responses),
        !.created = created,
        !.missing = a \in 1..Len(d.assignments) /\ AnyMissing(d, a, post),
        !.unknown = a \in 1..Len(d.assignments) /\ AnyUnknown(d, a, post)]

SubmitResponse ==
    \E u \in Actors(db), a \in AssignmentKeys, post \in Posts(db) :
        /\ Len(db.responses) + Len(db.questions) <= MaxResponses
        /\ LET r == SurveyAssignmentPost(db, u, a, post) IN
            /\ db' = r.db
            /\ last' = SubmitLast(db, u, a, post, r.outcome, r.created)
        /\ UNCHANGED <<confirmed, txn, seen>>

SurveyResults ==
    \E u \in Actors(db), s \in SurveyKeys :
        /\ LET r == SurveyResultsGet(db, u, s) IN
            last' = [Req("results", u, s, r.outcome) EXCEPT !.tally = r.tally]
        /\ UNCHANGED <<db, confirmed, txn, seen>>

(* ---- a submission taken one statement at a time, beside a reader ----- *)
\* the tables as the submitting request sees them
Working(d, t) == [d EXCEPT !.responses = t.rows]
\* a statement outside a transaction is committed at once; inside one, the
\* request's writes reach the other connections when the request ends
Published(d, w) == IF ATOMIC_REQUESTS THEN d ELSE w

BeginSubmit ==
    \E u \in Actors(db), a \in AssignmentKeys, post \in Posts(db) :
        /\ txn.phase \in {"idle", "done"}
        /\ Len(db.responses) + Len(db.questions) <= MaxResponses
        /\ SurveyAssignmentDispatch(db, u, a) = "ok"
        /\ txn' = [phase |-> "loop", user |-> u, a |-> a, post |-> post,
                   todo |-> SurveyQuestions(db, db.assignments[a].survey),
                   sid |-> savepoint(db), rows |-> db.responses,
                   before |-> Len(db.responses),
                   total |-> Len(SurveyQuestions(db, db.assignments[a].survey))]
        /\ UNCHANGED <<db, last, confirmed, seen>>

AnswerQuestion ==
    /\ txn.phase = "loop"
    /\ txn.todo # <<>>
    /\ LET r == AnswerStep(Working(db, txn), txn.a, Head(txn.todo), txn.post) IN
        /\ txn' = [txn EXCEPT !.phase = r.status, !.todo = Tail(@), !.rows = r.db.responses]
        /\ db' = Published(db, r.db)
    /\ UNCHANGED <<last, confirmed, seen>>

FinishSubmit ==
    /\ txn.phase \in {"loop", "validation", "exception"}
    /\ txn.phase = "loop" => txn.todo = <<>>
    /\ LET f == FinishPost(Working(db, txn), txn.sid, txn.phase) IN
        /\ db' = f.db
        /\ txn' = [txn EXCEPT !.phase = "done", !.rows = f.db.responses]
        /\ last' = SubmitLast([db EXCEPT !.responses = txn.sid.rows], txn.user, txn.a,
                              txn.post, f.outcome, Len(txn.rows) - txn.before)
    /\ UNCHANGED <<confirmed, seen>>

\* a results request on another connection, and how many rows of the
\* latest submission it finds
ReadResults ==
    \E u \in Actors(db), s \in SurveyKeys :
        /\ txn.phase # "idle"
        /\ LET r == SurveyResultsGet(db, u, s) IN
            /\ r.outcome = "results_page"
        /\ seen' = [rows |-> Len(db.responses) - txn.before, total |-> txn.total,
                    pending |-> Len(txn.rows) - txn.before]
        /\ UNCHANGED <<db, last, confirmed, txn>>

(* --------------------------- specifications --------------------------- *)
\* the database after n registrations of users who can log in
RECURSIVE Registered(_)
Registered(n) ==
    IF n = 0 THEN EmptyDb
    ELSE RegisterPost(Registered(n - 1), TRUE, [is_active |-> TRUE]).db

\* databases a successful SurveyCreateView.post leaves behind
SeedQuestions ==
    {qs \in QuestionLists : qs # <<>> /\ \A i \in 1..Len(qs) :
        qs[i].ok /\ \A j \in 1..Len(qs[i].choices) : qs[i].choices[j] = j}
SeedDbs ==
    {SurveyCreatePost(Registered(MaxUsers), u, "t", qs, as, rs).db :
        u \in 1..MaxUsers, qs \in SeedQuestions,
        as \in {l \in KeyLists : l # <<>> /\ \A i \in 1..Len(l) : l[i] <= MaxUsers},
        rs \in {l \in KeyLists : Len(l) <= 1 /\ \A i \in 1..Len(l) : l[i] <= MaxUsers}}

Rest == last = NoRequest /\ confirmed = {} /\ txn = IdleTxn /\ seen = NothingSeen

NextAccounts == RegisterGet \/ Register \/ Confirm
SpecAccounts == Init /\ [][NextAccounts]_vars

InitSurveys == db = Registered(MaxUsers) /\ Rest
NextSurveys ==
    \/ ProfileGet
    \/ SurveyCreateGet
    \/ SurveyCreate
    \/ SurveyManagerGet
    \/ SurveyManage
    \/ SurveyResults
SpecSurveys == InitSurveys /\ [][NextSurveys]_vars

InitResponses == db \in SeedDbs /\ Rest
NextResponses == SurveyAssignmentGet \/ SubmitResponse \/ SurveyResults \/ SurveyManagerGet
SpecResponses == InitResponses /\ [][NextResponses]_vars

NextConcurrent == BeginSubmit \/ AnswerQuestion \/ FinishSubmit \/ ReadResults
SpecConcurrent == InitResponses /\ [][NextConcurrent]_vars

(* ------------------------------ properties ---------------------------- *)
\* the rows the last submission left in the table
NewRows == SubSeq(db.responses, last.before + 1, Len(db.responses))
Handled == last.op = "submit" /\ last.outcome \in {"assignment_form", "redirect_profile"}

C2_InactiveUntilConfirmed ==
    \A u \in 1..Len(db.users) : db.users[u].is_active => u \in confirmed

Denied == {"forbidden", "redirect_login"}

\* C3: a user without the view-results grant is denied by the results
\* endpoint, a user who is not the creator is denied by the manage endpoint
\* (GET and POST), and the denied request changes no row, grant or membership.
C3_DeniedBeforeHandler ==
    [][ /\ ( /\ last'.op \in {"manage_get", "manage_post"}
             /\ last'.target \in 1..Len(db.surveys)
             /\ db.surveys[last'.target].created_by # last'.user )
           => (last'.outcome \in Denied /\ db' = db)
        /\ ( /\ last'.op = "results"
             /\ last'.target \in 1..Len(db.surveys)
             /\ ~(last'.target \in db.groupPerms /\ <<last'.user, last'.target>> \in db.members) )
           => (last'.outcome \in Denied /\ db' = db)
      ]_vars

\* a logged-in user who is not the creator posted to the manage endpoint
C3_Witness ==
    /\ last.op = "manage_post" /\ last.outcome = "forbidden"
    /\ last.target \in 1..Len(db.surveys)
    /\ db.surveys[last.target].created_by # last.user

\* C4: a creation whose title, question list or assignee list is empty
\* changes no Survey, Question, Choice or SurveyAssignment row and returns
\* the error of each missing field.
C4_InvalidCreatesNothing ==
    [][ ( last'.op = "create" /\ Authenticated(db, last'.user) /\ last'.blank # {} )
        => /\ last'.outcome = "create_form"
           /\ last'.errors = last'.blank
           /\ db'.surveys = db.surveys /\ db'.questions = db.questions
           /\ db'.choices = db.choices /\ db'.assignments = db.assignments
      ]_vars

\* a logged-in user submitted a creation with only the assignees missing
C4_Witness ==
    /\ last.op = "create" /\ last.outcome = "create_form"
    /\ last.user # Anonymous /\ last.blank = {"assignees"}

\* the texts of a question's Choice rows, in primary-key order
ChoiceTextsOf(q) ==
    LET cs == QuestionChoices(db, q) IN [j \in 1..Len(cs) |-> db.choices[cs[j]].text]

\* C5: after a successful creation the survey has as many Question rows as
\* question objects were submitted, and each Question's Choice rows carry
\* the submitted choice texts in the submitted order.
C5_QuestionsAsSubmitted ==
    (last.op = "create" /\ last.outcome = "redirect_profile") =>
        LET qs == SurveyQuestions(db, last.target) IN
        /\ Len(qs) = Len(last.questions)
        /\ \A i \in 1..Len(qs) : ChoiceTextsOf(qs[i]) = last.questions[i].choices

\* a creation of two questions, the second with two choices, succeeded
C5_Witness ==
    /\ last.op = "create" /\ last.outcome = "redirect_profile"
    /\ Len(last.questions) = 2
    /\ last.questions[2].choices = <<2, 1>>

RowsFor(q, c) ==
    {n \in 1..Len(db.responses) : db.responses[n].question = q /\ db.responses[n].choice = c}

\* C6: the tally has one entry for every choice defined for each question
\* of the survey, and a choice without responses has the count 0.
C6_TallyComplete ==
    (last.op = "results" /\ last.outcome = "results_page") =>
        LET qs == SurveyQuestions(db, last.target) IN
        /\ Len(last.tally) = Len(qs)
        /\ \A i \in 1..Len(qs) : \A c \in 1..Len(db.choices) :
              db.choices[c].question = qs[i] =>
                LET es == {k \in 1..Len(last.tally[i].choices) : last.tally[i].choices[k].id = c}
                IN /\ Cardinality(es) = 1
                   /\ RowsFor(qs[i], c) = {} =>
                        \A k \in es : last.tally[i].choices[k].responses = 0

\* a tally of a question with one chosen and one never chosen choice
C6_Witness ==
    /\ last.op = "results" /\ last.outcome = "results_page"
    /\ \E i \in 1..Len(last.tally) : \E k, l \in 1..Len(last.tally[i].choices) :
          /\ last.tally[i].choices[k].responses = 0
          /\ last.tally[i].choices[l].responses > 0

\* C7: there is at most one SurveyResponse row per (assignment, question).
C7_OneResponsePerQuestion ==
    \A m, n \in 1..Len(db.responses) :
        ( /\ db.responses[m].survey_assigned = db.responses[n].survey_assigned
          /\ db.responses[m].question = db.responses[n].question ) => m = n

C9_NotFound ==
    /\ (last.op = "submit" /\ last.unknown /\ last.outcome \notin Denied)
          => last.outcome = "not_found"
    /\ ( /\ last.op \in {"manage_get", "manage_post", "results"}
         /\ last.target \notin 1..Len(db.surveys) )
          => last.outcome = "not_found"

RECURSIVE Total(_)
Total(es) == IF es = <<>> THEN 0 ELSE Head(es).responses + Total(Tail(es))

\* C10: every SurveyResponse row names a choice of its own question, and
\* for every question the counts of the tally add up to the number of its
\* rows.
C10_ChoiceOfOwnQuestion ==
    /\ \A n \in 1..Len(db.responses) :
          db.choices[db.responses[n].choice].question = db.responses[n].question
    /\ \A q \in 1..Len(db.questions) :
          Total(QuestionViewModel(db, q).choices)
             = Cardinality({n \in 1..Len(db.responses) : db.responses[n].question = q})

====
